---- MODULE Spec2Model ----
(***************************************************************************)
(* A model of quince's Ronda (src/quince/ronda/ronda.py): one play through *)
(* a single deck of cards.  The Ronda object is the state; play_turn is    *)
(* the only operation after construction.  Deck, Card, Player and Pila     *)
(* live in quince.components and are modelled from their documented        *)
(* contracts.                                                              *)
(***************************************************************************)
EXTENDS Integers, Sequences, FiniteSets, TLC

\* ---------------------------------------------------------------- bounds
\* Largest number of players a round is constructed with.
MaxPlayers == 3
\* Largest deck handed to the constructor.
MaxDeck == 16

\* ------------------------------------------------------ program constants
MesaDeal == 4
HandSize == 3
EscobaSum == 15
\* Number of distinct point values of a suit (Card.info()[0] is 1..10).
SuitLen == 10

\* ------------------------------------------------------------- sequences
SetOf(s) == { s[i] : i \in 1..Len(s) }

RECURSIVE Without(_, _)
\* list.remove for every card of cs: s without the cards of the set cs.
Without(s, cs) ==
  IF s = <<>> THEN <<>>
  ELSE IF Head(s) \in cs THEN Without(Tail(s), cs)
       ELSE <<Head(s)>> \o Without(Tail(s), cs)

RECURSIVE SumVal(_)
\* Card.info()[0]: the point value of card c.
Val(c) == ((c - 1) % SuitLen) + 1
\* sum([x.info()[0] for x in cards])
SumVal(s) == IF s = <<>> THEN 0 ELSE Val(Head(s)) + SumVal(Tail(s))

RECURSIVE SumLen(_, _)
\* Sum of Len(f[i]) for i in 0..n-1.
SumLen(f, n) == IF n = 0 THEN 0 ELSE Len(f[n - 1]) + SumLen(f, n - 1)

RECURSIVE Ascending(_)
\* The cards of a set as a list, in ascending order.
Ascending(S) ==
  IF S = {} THEN <<>>
  ELSE LET m == CHOOSE x \in S : \A y \in S : x <= y
       IN <<m>> \o Ascending(S \ {m})

\* ------------------------------------------------------------------ state
VARIABLES
  players,         \* len(self._players); players are the indices 0..players-1
  dealer,          \* self._dealer
  deck,            \* self._deck: the cards still to deal, next card first
  mesa,            \* self._mesa
  hand,            \* hand[p]: Player p's current_hand()
  pila,            \* pila[p]: Player p's pila(): its cards and its escobas
  current_player,  \* self._current_player
  last_picked_up,  \* self._last_picked_up (as an index into the players)
  finished,        \* self._finished
  dealt_escoba,    \* self._dealt_escoba
  constructed,     \* whether __init__ returned (a Ronda instance exists)
  raised,          \* the exception the last call raised, or "none"
  call,            \* the last call: its name, what it did, its arguments valid
  deck0,           \* history: the deck handed to the constructor
  turns,           \* history: play_turn calls that returned normally
  last_capture     \* history: the player of the latest capture, else dealer

vars == <<players, dealer, deck, mesa, hand, pila, current_player,
          last_picked_up, finished, dealt_escoba, constructed, raised, call,
          deck0, turns, last_capture>>

\* What the program holds: the Ronda object and its players.
prog == <<players, dealer, deck, mesa, hand, pila, current_player,
          last_picked_up, finished, dealt_escoba>>

\* The Ronda object and its players, as one value.
Self == [players |-> players, dealer |-> dealer, deck |-> deck, mesa |-> mesa,
         hand |-> hand, pila |-> pila, current_player |-> current_player,
         last_picked_up |-> last_picked_up, finished |-> finished,
         dealt_escoba |-> dealt_escoba, raised |-> "none"]

Raise(s, e) == [s EXCEPT !.raised = e]

\* ------------------------------------------------- collaborators (contract)
\* Deck.deal(n): fails if fewer than n cards remain.
CanDeal(s, n) == Len(s.deck) >= n
\* Deck.deal(n): the n cards dealt.
Dealt(s, n) == SubSeq(s.deck, 1, n)
\* Deck.deal(n): the deck afterwards.
AfterDeal(s, n) == [s EXCEPT !.deck = SubSeq(s.deck, n + 1, Len(s.deck))]

\* Pila.add(cards, escoba)
PilaAdd(p, cards, escoba) ==
  [cards |-> p.cards \o cards,
   escobas |-> IF escoba THEN p.escobas + 1 ELSE p.escobas]

\* Player.pick_up_hand(cards)
PickUpHand(s, p, cards) == [s EXCEPT !.hand[p] = @ \o cards]

\* Player.place_card_on_mesa(mesa, own_card)
PlaceCardOnMesa(s, own_card) ==
  LET p == s.current_player IN
  IF own_card \notin SetOf(s.hand[p]) THEN Raise(s, "InvalidMoveError")
  ELSE [s EXCEPT !.hand[p] = Without(@, {own_card}),
                 !.mesa = Append(@, own_card)]

\* PickUpFromMesa, but the card played from the hand does not reach the pile.
PickUpFromMesa_MesaOnly(s, own_card, mesa_cards) ==
  LET p == s.current_player IN
  IF \/ own_card \notin SetOf(s.hand[p])
     \/ ~(SetOf(mesa_cards) \subseteq SetOf(s.mesa))
  THEN Raise(s, "InvalidMoveError")
  ELSE [s EXCEPT !.hand[p] = Without(@, {own_card}),
                 !.mesa = Without(@, SetOf(mesa_cards)),
                 !.pila[p] = PilaAdd(@, mesa_cards, FALSE)]

\* Player.pick_up_from_mesa(mesa, own_card, mesa_cards)
PickUpFromMesa(s, own_card, mesa_cards) ==
  LET p == s.current_player IN
  IF \/ own_card \notin SetOf(s.hand[p])
     \/ ~(SetOf(mesa_cards) \subseteq SetOf(s.mesa))
  THEN Raise(s, "InvalidMoveError")
  ELSE [s EXCEPT !.hand[p] = Without(@, {own_card}),
                 !.mesa = Without(@, SetOf(mesa_cards)),
                 !.pila[p] = PilaAdd(@, <<own_card>> \o mesa_cards, FALSE)]

\* ------------------------------------------------------------------ Ronda
\* NextPlayer, but the index is left where it was.
NextPlayer_Stay(s) == [s EXCEPT !.current_player = s.current_player % s.players]

\* Ronda._next_player
NextPlayer(s) ==
  [s EXCEPT !.current_player = (s.current_player + 1) % s.players]

RECURSIVE DealFrom_SkipLast(_, _)
\* DealFrom, but the loop stops one player short.
DealFrom_SkipLast(s, i) ==
  IF i >= s.players - 1 THEN s
  ELSE IF ~CanDeal(s, HandSize) THEN Raise(s, "DeckExhaustedError")
  ELSE DealFrom_SkipLast(
         PickUpHand(AfterDeal(s, HandSize), i, Dealt(s, HandSize)), i + 1)

RECURSIVE DealFrom(_, _)
\* for plyr in self._players[i:]: plyr.pick_up_hand(self._deck.deal(3))
DealFrom(s, i) ==
  IF i = s.players THEN s
  ELSE IF ~CanDeal(s, HandSize) THEN Raise(s, "DeckExhaustedError")
  ELSE DealFrom(PickUpHand(AfterDeal(s, HandSize), i, Dealt(s, HandSize)), i + 1)

\* Ronda._deal_hands
DealHands(s) ==
  IF s.finished THEN Raise(s, "RondaFinishedError") ELSE DealFrom(s, 0)

\* CheckEscoba, but the mesa is not cleared after the award.
CheckEscoba_KeepMesa(s) ==
  IF SumVal(s.mesa) = EscobaSum
  THEN [s EXCEPT !.pila[s.dealer] = PilaAdd(@, s.mesa, TRUE),
                 !.dealt_escoba = TRUE]
  ELSE s

\* Ronda.__init__, lines 66-73: the straight escoba
CheckEscoba(s) ==
  IF SumVal(s.mesa) = EscobaSum
  THEN [s EXCEPT !.pila[s.dealer] = PilaAdd(@, s.mesa, TRUE),
                 !.mesa = <<>>,
                 !.dealt_escoba = TRUE]
  ELSE s

\* FirstPlayer, but the turn is not passed on from the dealer.
FirstPlayer_Dealer(s) == [s EXCEPT !.current_player = s.dealer]

\* Ronda.__init__, lines 78-80: establish who plays first
FirstPlayer(s) == NextPlayer([s EXCEPT !.current_player = s.dealer])

\* Ronda.__init__(players, dealer, deck), players given as their number n
New(n, d, dk) ==
  LET s0 == [players |-> n, dealer |-> d, deck |-> dk, mesa |-> <<>>,
             hand |-> [p \in 0..(n - 1) |-> <<>>],
             pila |-> [p \in 0..(n - 1) |-> [cards |-> <<>>, escobas |-> 0]],
             current_player |-> d, last_picked_up |-> d, finished |-> FALSE,
             dealt_escoba |-> FALSE, raised |-> "none"]
  IN IF ~CanDeal(s0, MesaDeal) THEN Raise(s0, "DeckExhaustedError")
     ELSE LET s1 == [AfterDeal(s0, MesaDeal) EXCEPT !.mesa = Dealt(s0, MesaDeal)]
              s2 == DealHands(CheckEscoba(s1))
          IN IF s2.raised # "none" THEN s2 ELSE FirstPlayer(s2)

\* IsDrop, but only None is a drop.
IsDrop_NoneOnly(mesa_cards) == mesa_cards.none

\* play_turn, line 126: mesa_cards == [] or mesa_cards is None
IsDrop(mesa_cards) == mesa_cards.none \/ mesa_cards.cards = <<>>

\* Act, but the last picker is recorded before the player picks up.
Act_MarkFirst(s, own_card, mesa_cards) ==
  IF IsDrop(mesa_cards) THEN PlaceCardOnMesa(s, own_card)
  ELSE PickUpFromMesa([s EXCEPT !.last_picked_up = s.current_player],
                      own_card, mesa_cards.cards)

\* Act, but a capture does not record the last picker.
Act_NoMark(s, own_card, mesa_cards) ==
  IF IsDrop(mesa_cards) THEN PlaceCardOnMesa(s, own_card)
  ELSE PickUpFromMesa(s, own_card, mesa_cards.cards)

\* Act, but a capture that empties the mesa counts as a dealt escoba.
Act_FlagEscoba(s, own_card, mesa_cards) ==
  IF IsDrop(mesa_cards) THEN PlaceCardOnMesa(s, own_card)
  ELSE LET t == PickUpFromMesa(s, own_card, mesa_cards.cards)
       IN IF t.raised # "none" THEN t
          ELSE [t EXCEPT !.last_picked_up = t.current_player,
                         !.dealt_escoba = @ \/ t.mesa = <<>>]

\* play_turn, lines 125-130: the current player performs an action
Act(s, own_card, mesa_cards) ==
  IF IsDrop(mesa_cards) THEN PlaceCardOnMesa(s, own_card)
  ELSE LET t == PickUpFromMesa(s, own_card, mesa_cards.cards)
       IN IF t.raised # "none" THEN t
          ELSE [t EXCEPT !.last_picked_up = t.current_player]

\* HandIsDone, but for whichever player has just emptied its hand.
HandIsDone_AnyPlayer(s) == s.hand[s.current_player] = <<>>

\* play_turn, lines 136-137
HandIsDone(s) ==
  s.current_player = s.dealer /\ s.hand[s.current_player] = <<>>

\* Branch, but the cards left on the mesa go to the dealer.
Branch_ToDealer(s) ==
  IF HandIsDone(s) /\ s.deck = <<>>
  THEN [s EXCEPT !.pila[s.dealer] = PilaAdd(@, s.mesa, FALSE),
                 !.finished = TRUE]
  ELSE IF HandIsDone(s)
  THEN LET t == DealHands(s)
       IN IF t.raised # "none" THEN t ELSE NextPlayer(t)
  ELSE NextPlayer(s)

\* Branch, but the turn is passed on when the ronda finishes, too.
Branch_AdvanceOnFinish(s) ==
  IF HandIsDone(s) /\ s.deck = <<>>
  THEN NextPlayer(
         [s EXCEPT !.pila[s.last_picked_up] = PilaAdd(@, s.mesa, FALSE),
                   !.finished = TRUE])
  ELSE IF HandIsDone(s)
  THEN LET t == DealHands(s)
       IN IF t.raised # "none" THEN t ELSE NextPlayer(t)
  ELSE NextPlayer(s)

\* Branch, but the ronda finishes without a look at the deck.
Branch_FinishEarly(s) ==
  IF HandIsDone(s)
  THEN [s EXCEPT !.pila[s.last_picked_up] = PilaAdd(@, s.mesa, FALSE),
                 !.finished = TRUE]
  ELSE NextPlayer(s)

\* play_turn, lines 139-148: finish, deal another hand, or pass the turn
Branch(s) ==
  IF HandIsDone(s) /\ s.deck = <<>>
  THEN [s EXCEPT !.pila[s.last_picked_up] = PilaAdd(@, s.mesa, FALSE),
                 !.finished = TRUE]
  ELSE IF HandIsDone(s)
  THEN LET t == DealHands(s)
       IN IF t.raised # "none" THEN t ELSE NextPlayer(t)
  ELSE NextPlayer(s)

\* PlayTurnOf, but without the guard on a finished ronda.
PlayTurnOf_NoGuard(s, own_card, mesa_cards) ==
  LET t == Act(s, own_card, mesa_cards)
  IN IF t.raised # "none" THEN t ELSE Branch(t)

\* Ronda.play_turn(own_card, mesa_cards)
PlayTurnOf(s, own_card, mesa_cards) ==
  IF s.finished THEN Raise(s, "RondaFinishedError")
  ELSE LET t == Act(s, own_card, mesa_cards)
       IN IF t.raised # "none" THEN t ELSE Branch(t)

\* ----------------------------------------------------------------- inputs
\* The cards of the Spanish deck: four suits of SuitLen values each.
AllCards == 1..(4 * SuitLen)

\* Two shuffles.  Straight opens with four cards that add up to 15;
\* Clearing opens with a mesa of 5, 6, 7, 8 and lets the two players of a
\* ten-card round pick up every card, one mesa card at a time.
Straight == <<1, 2, 5, 7>> \o Ascending(AllCards \ {1, 2, 5, 7})
Clearing == <<5, 6, 7, 8, 9, 17, 20, 10, 18, 15>> \o
            Ascending(AllCards \ {5, 6, 7, 8, 9, 17, 20, 10, 18, 15})

\* The decks a round of n players is constructed with: the first k cards
\* of a shuffle, for every k too small for the opening deal and every k
\* that makes a mesa and whole hands.
DecksFor(n) ==
  { SubSeq(sh, 1, k) : sh \in {Straight, Clearing},
      k \in { j \in 0..MaxDeck : \/ j < MesaDeal + HandSize * n
                                 \/ (j - MesaDeal) % HandSize = 0 } }

RECURSIVE Picks(_, _)
\* The sets of cards of S whose values add up to t.
Picks(S, t) ==
  IF t = 0 THEN {{}}
  ELSE IF S = {} \/ t < 0 THEN {}
  ELSE LET c == CHOOSE x \in S : TRUE
       IN Picks(S \ {c}, t) \cup
          { T \cup {c} : T \in Picks(S \ {c}, t - Val(c)) }

\* The first card of a list, if any.
First(s) == IF s = <<>> THEN {} ELSE {Head(s)}

\* The cards a caller names as own_card: the leftmost card of the current
\* hand, or a card that is not in it: the leftmost card of the next
\* player's hand, a card of the mesa, or 0, a card of no deck.
OwnChoices ==
  First(hand[current_player])
    \cup First(hand[(current_player + 1) % players])
    \cup First(mesa) \cup {0}

\* The lists a caller passes as mesa_cards with own_card: None, the empty
\* list, the cards of the mesa that add up to 15 with own_card (the move
\* of the game), and a card that is not on the mesa.
MesaChoices(own_card) ==
  { [none |-> TRUE, cards |-> <<>>], [none |-> FALSE, cards |-> <<>>] } \cup
  { [none |-> FALSE, cards |-> Ascending(S)] :
      S \in Picks(SetOf(mesa), EscobaSum - Val(own_card)) \ {{}} } \cup
  { [none |-> FALSE, cards |-> <<c>>] : c \in First(hand[current_player]) }

\* What a call of play_turn that led to s did with the cards before it
\* branched: nothing when it raised at once, else a drop or a capture.
Performed(s, mesa_cards) ==
  IF s.raised \in {"RondaFinishedError", "InvalidMoveError"} THEN "none"
  ELSE IF IsDrop(mesa_cards) THEN "drop" ELSE "capture"

\* The preconditions of play_turn on its arguments.
ValidArgs(own_card, mesa_cards) ==
  /\ own_card \in SetOf(hand[current_player])
  /\ SetOf(mesa_cards.cards) \subseteq SetOf(mesa)

\* ------------------------------------------------------------ transitions
Commit(s) ==
  /\ players' = s.players
  /\ dealer' = s.dealer
  /\ deck' = s.deck
  /\ mesa' = s.mesa
  /\ hand' = s.hand
  /\ pila' = s.pila
  /\ current_player' = s.current_player
  /\ last_picked_up' = s.last_picked_up
  /\ finished' = s.finished
  /\ dealt_escoba' = s.dealt_escoba
  /\ raised' = s.raised

Init ==
  \E n \in 2..MaxPlayers : \E d \in 0..(n - 1) : \E dk \in DecksFor(n) :
    LET s == New(n, d, dk) IN
    /\ players = s.players
    /\ dealer = s.dealer
    /\ deck = s.deck
    /\ mesa = s.mesa
    /\ hand = s.hand
    /\ pila = s.pila
    /\ current_player = s.current_player
    /\ last_picked_up = s.last_picked_up
    /\ finished = s.finished
    /\ dealt_escoba = s.dealt_escoba
    /\ raised = s.raised
    /\ constructed = (s.raised = "none")
    /\ call = [name |-> "__init__", action |-> "none", valid |-> TRUE,
               own_card |-> 0, mesa_cards |-> <<>>]
    /\ deck0 = dk
    /\ turns = 0
    /\ last_capture = d

\* A call of play_turn on the constructed round.
PlayTurn ==
  /\ constructed
  /\ \E own_card \in OwnChoices : \E mesa_cards \in MesaChoices(own_card) :
       LET s == PlayTurnOf(Self, own_card, mesa_cards) IN
       /\ Commit(s)
       /\ call' = [name |-> "play_turn", action |-> Performed(s, mesa_cards),
                   valid |-> ValidArgs(own_card, mesa_cards),
                   own_card |-> IF Performed(s, mesa_cards) = "none"
                                THEN 0 ELSE own_card,
                   mesa_cards |-> IF Performed(s, mesa_cards) = "capture"
                                  THEN mesa_cards.cards ELSE <<>>]
       /\ turns' = IF s.raised = "none" THEN turns + 1 ELSE turns
       /\ last_capture' = IF Performed(s, mesa_cards) = "capture"
                          THEN current_player ELSE last_capture
  /\ UNCHANGED <<constructed, deck0>>

Next == PlayTurn

Spec == Init /\ [][Next]_vars

\* ----------------------------------------------------------------- claims
\* The cards of all the piles.
PileCards == SumLen([p \in 0..(players - 1) |-> pila[p].cards], players)
\* The last k cards of a list.
Suffix(s, k) == SubSeq(s, Len(s) - k + 1, Len(s))
\* The four cards the constructor deals to the mesa.
Opening == SubSeq(deck0, 1, MesaDeal)
\* The cards the constructor needs.
MinDeck == MesaDeal + HandSize * players
EmptyPila == [cards |-> <<>>, escobas |-> 0]
\* The step is a call of play_turn that dropped or picked up cards.
Played == call'.name = "play_turn" /\ call'.action # "none"

\* C1: after construction and after every play_turn, the cards of the
\* deck, of all hands, of the mesa and of all piles together number as
\* many as the deck the round was constructed with.
Conservation ==
  constructed =>
    Len(deck) + SumLen(hand, players) + Len(mesa) + PileCards = Len(deck0)

\* C2: when a play_turn of the dealer leaves the dealer's hand empty while
\* the deck is empty, the ronda becomes finished and the pile of the last
\* picker gains, after what the turn's own capture added, exactly the cards
\* left on the mesa; no other pile changes.
TerminationTransfer ==
  [][ (Played /\ current_player = dealer /\ hand'[dealer] = <<>> /\ deck = <<>>)
      => LET lp == last_picked_up'
             own == IF call'.action = "capture"
                    THEN 1 + Len(mesa) - Len(mesa') ELSE 0
         IN /\ finished'
            /\ Len(pila'[lp].cards) = Len(pila[lp].cards) + own + Len(mesa')
            /\ Suffix(pila'[lp].cards, Len(mesa')) = mesa'
            /\ SubSeq(pila'[lp].cards, 1, Len(pila[lp].cards)) = pila[lp].cards
            /\ pila'[lp].escobas = pila[lp].escobas
            /\ \A p \in 0..(players - 1) : p # lp => pila'[p] = pila[p] ]_vars

\* C2 witness: a round finished with cards left on the mesa, which went to
\* a last picker other than the dealer.
TerminationTransferWitness ==
  /\ finished
  /\ mesa # <<>>
  /\ last_picked_up # dealer
  /\ Suffix(pila[last_picked_up].cards, Len(mesa)) = mesa

\* C3: on a finished ronda every call of play_turn raises
\* RondaFinishedError and changes nothing.
PostFinishGuard ==
  [][ finished => (raised' = "RondaFinishedError" /\ UNCHANGED prog) ]_vars

\* C3 witness: play_turn was called on a finished ronda.
PostFinishGuardWitness ==
  finished /\ call.name = "play_turn" /\ raised = "RondaFinishedError"

\* C4: play_turn deals a new hand to every player if and only if the
\* dealer played its last card while the deck was not empty, and then
\* every hand has exactly 3 cards.
RedealTrigger ==
  [][ Played =>
        LET due == /\ current_player = dealer
                   /\ Len(hand[dealer]) = 1
                   /\ deck # <<>>
            dealt == \A p \in 0..(players - 1) :
                       /\ Len(hand'[p]) = HandSize
                       /\ Len(hand'[p]) > Len(hand[p])
        IN due <=> dealt ]_vars

\* C5: a play_turn call with an own_card that is not in the current hand,
\* or with mesa_cards that are not all on the mesa, changes nothing; it
\* raises an invalid-move error (on a finished ronda the guard of C3
\* answers first, with RondaFinishedError).
InvalidMoveAtomic ==
  [][ (call'.name = "play_turn" /\ ~call'.valid)
      => /\ UNCHANGED prog
         /\ raised' = IF finished THEN "RondaFinishedError"
                                  ELSE "InvalidMoveError" ]_vars

\* C5 witness: an invalid move was refused on a running ronda.
InvalidMoveAtomicWitness ==
  /\ constructed /\ ~finished /\ turns > 0
  /\ call.name = "play_turn" /\ ~call.valid
  /\ raised = "InvalidMoveError"

\* C6: right after construction, if the four opening cards add up to 15
\* then dealt_escoba() is true, the mesa is empty and the dealer's pile
\* holds exactly those cards with one escoba; otherwise dealt_escoba() is
\* false, the mesa holds exactly those cards and every pile is empty.
EscobaOnDeal ==
  (constructed /\ turns = 0) =>
    IF SumVal(Opening) = EscobaSum
    THEN /\ dealt_escoba
         /\ mesa = <<>>
         /\ pila[dealer] = [cards |-> Opening, escobas |-> 1]
         /\ \A p \in 0..(players - 1) : p # dealer => pila[p] = EmptyPila
    ELSE /\ ~dealt_escoba
         /\ mesa = Opening
         /\ \A p \in 0..(players - 1) : pila[p] = EmptyPila

\* C6 witness: a round constructed from a deck that opens with 15.
EscobaOnDealWitness ==
  constructed /\ turns = 0 /\ SumVal(Opening) = EscobaSum /\ dealt_escoba

\* C7: the first current player is the one after the dealer, and in the
\* first lap the players act in index order from there, the dealer last.
TurnOrderAtStart ==
  (constructed /\ turns < players) =>
    current_player = (dealer + 1 + turns) % players

\* C7 witness: the dealer, who is not the last of the list, is about to
\* act as the last player of the first lap of a three-player round.
TurnOrderAtStartWitness ==
  /\ constructed /\ players = 3 /\ dealer = 1
  /\ turns = players - 1 /\ current_player = dealer

\* C8: the last picker is the player of the latest capture of the round,
\* or the dealer if there was none.
LastPickerTracks == constructed => last_picked_up = last_capture

\* C8 witness: a drop that followed a capture by a player other than the
\* dealer.
LastPickerTracksWitness ==
  /\ constructed /\ last_capture # dealer
  /\ call.action = "drop" /\ last_picked_up = last_capture

\* C9: construction fails with a deck-exhausted error when the deck has
\* fewer than 4 + 3*N cards, and succeeds otherwise.
ConstructionFailure ==
  /\ constructed <=> Len(deck0) >= MinDeck
  /\ ~constructed => (raised = "DeckExhaustedError" /\ turns = 0)

\* C9 witness: a deck one card short of the opening deal.
ConstructionFailureWitness ==
  ~constructed /\ Len(deck0) = MinDeck - 1 /\ raised = "DeckExhaustedError"

\* C10: every play_turn call with valid arguments on a ronda that is not
\* finished runs to completion: it never fails for want of cards to deal.
PlayTurnCompletes ==
  [][ (call'.name = "play_turn" /\ call'.valid /\ ~finished)
      => raised' = "none" ]_vars

\* Every hand is empty.
HandsEmpty == \A p \in 0..(players - 1) : hand[p] = <<>>

\* C11: when the dealer has played the last card of its hand, every other
\* hand is empty too; so play_turn deals hands, and finishes the ronda,
\* only when the turn's card was the last card of all the hands.
DealerEmptiesLast ==
  [][ LET last == \A p \in 0..(players - 1) :
                    Len(hand[p]) = IF p = current_player THEN 1 ELSE 0
      IN /\ (Played /\ current_player = dealer /\ Len(hand[dealer]) = 1)
              => last
         /\ (Played /\ deck' # deck) => last
         /\ (Played /\ finished') => (last /\ HandsEmpty') ]_vars

\* C11 witness: the dealer of a two-player round played its last card
\* and hands were dealt again.
DealerEmptiesLastWitness ==
  /\ constructed /\ players = 2 /\ raised = "none"
  /\ turns = HandSize * players
  /\ Len(deck) < Len(deck0) - MinDeck
  /\ \A p \in 0..(players - 1) : Len(hand[p]) = HandSize

\* C12: a play_turn that returns normally without finishing the ronda
\* moves the current player from index i to (i + 1) mod N, with or without
\* a redeal; the play_turn that finishes the ronda leaves the turn with
\* the dealer; the index is always one of 0..N-1.
TurnAdvancement ==
  [][ /\ current_player \in 0..(players - 1)
      /\ current_player' \in 0..(players - 1)
      /\ (Played /\ raised' = "none") =>
           IF finished'
           THEN current_player' = current_player /\ current_player' = dealer
           ELSE current_player' = (current_player + 1) % players ]_vars

\* C12 witness: the turn passed from the dealer, the last of the list, to
\* player 0 together with a redeal.
TurnAdvancementWitness ==
  /\ constructed /\ ~finished /\ raised = "none"
  /\ dealer = players - 1 /\ current_player = 0
  /\ turns = HandSize * players
  /\ Len(deck) = Len(deck0) - MinDeck - HandSize * players

\* The deck of the round was a mesa and whole hands for k >= 1 deals.
WholeDeck ==
  constructed /\ (Len(deck0) - MesaDeal) % (HandSize * players) = 0

\* C13: with a deck of 4 + 3*N*k cards the ronda is finished exactly when
\* 3*N*k turns have been played, never earlier, and it stays finished;
\* until then the current player holds a card, and every call with valid
\* arguments returns and counts as one more turn, so that a driver loop
\* that plays turns while the ronda is not finished comes to its end.
RoundEnds ==
  /\ [](WholeDeck => /\ turns <= Len(deck0) - MesaDeal
                     /\ finished <=> turns = Len(deck0) - MesaDeal
                     /\ ~finished => hand[current_player] # <<>>)
  /\ [][ /\ finished => finished'
         /\ (WholeDeck /\ ~finished /\ call'.name = "play_turn" /\ call'.valid)
              => (raised' = "none" /\ turns' = turns + 1) ]_vars

\* C13 witness: a two-player round of two deals is finished after its
\* twelve turns.
RoundEndsWitness ==
  /\ WholeDeck /\ finished /\ players = 2
  /\ Len(deck0) = MesaDeal + 2 * HandSize * players
  /\ turns = 2 * HandSize * players

\* C14: is_finished() is true only if the deck and every hand are empty,
\* and no state that is not finished has both the deck and every hand
\* empty.
FinishedMeaning ==
  constructed =>
    /\ finished => (deck = <<>> /\ HandsEmpty)
    /\ ~finished => ~(deck = <<>> /\ HandsEmpty)

\* C14 witness: a ronda of two deals finished, with the deck and the hands
\* empty after its last turn.
FinishedMeaningWitness ==
  /\ constructed /\ finished /\ deck = <<>> /\ HandsEmpty
  /\ Len(deck0) > MinDeck
  /\ call.name = "play_turn" /\ raised = "none"

\* C15: a successful play_turn with non-empty mesa_cards removes own_card
\* from the current player's hand, removes exactly the selected cards from
\* the mesa and leaves the other mesa cards in their order, appends exactly
\* own_card and the selected cards to that player's pile, and changes no
\* other player's hand or pile before the turn is passed on (where a redeal
\* adds to the hands and the end of the ronda adds the mesa to the pile of
\* the last picker, who is that player).
CaptureEffect ==
  [][ (Played /\ call'.action = "capture" /\ raised' = "none") =>
        LET p == current_player
            own == call'.own_card
            sel == call'.mesa_cards
            h == Without(hand[p], {own})
        IN /\ sel # <<>>
           /\ own \in SetOf(hand[p])
           /\ Len(h) = Len(hand[p]) - 1
           /\ SubSeq(hand'[p], 1, Len(h)) = h
           /\ own \notin SetOf(hand'[p])
           /\ mesa' = Without(mesa, SetOf(sel))
           /\ Len(mesa') = Len(mesa) - Len(sel)
           /\ pila'[p].cards = pila[p].cards \o <<own>> \o sel \o
                                 (IF finished' THEN mesa' ELSE <<>>)
           /\ pila'[p].escobas = pila[p].escobas
           /\ \A q \in 0..(players - 1) : q # p => pila'[q] = pila[q]
           /\ deck' = deck =>
                /\ hand'[p] = h
                /\ \A q \in 0..(players - 1) : q # p => hand'[q] = hand[q] ]_vars

\* C15 witness: a capture of two of the cards of the mesa that left other
\* cards on it, by a player who still holds cards.
CaptureEffectWitness ==
  /\ constructed /\ ~finished /\ raised = "none"
  /\ call.action = "capture" /\ Len(call.mesa_cards) >= 2
  /\ mesa # <<>>
  /\ hand[last_capture] # <<>>

\* C16: a successful play_turn with mesa_cards equal to None or to the
\* empty list, which do the same, removes own_card from the current
\* player's hand and appends it at the end of the mesa; it leaves every
\* pile and the last picker unchanged, unless that turn finishes the ronda.
DropEffect ==
  /\ [](constructed =>
          \A own_card \in OwnChoices :
            PlayTurnOf(Self, own_card, [none |-> TRUE, cards |-> <<>>]) =
            PlayTurnOf(Self, own_card, [none |-> FALSE, cards |-> <<>>]))
  /\ [][ (Played /\ call'.action = "drop" /\ raised' = "none") =>
           LET p == current_player
               own == call'.own_card
               h == Without(hand[p], {own})
           IN /\ own \in SetOf(hand[p])
              /\ Len(h) = Len(hand[p]) - 1
              /\ SubSeq(hand'[p], 1, Len(h)) = h
              /\ own \notin SetOf(hand'[p])
              /\ mesa' = Append(mesa, own)
              /\ last_picked_up' = last_picked_up
              /\ ~finished' => pila' = pila ]_vars

\* C16 witness: a card dropped on a mesa that held the four opening cards,
\* in a ronda that goes on.
DropEffectWitness ==
  /\ constructed /\ ~finished /\ raised = "none"
  /\ call.action = "drop"
  /\ mesa = Append(Opening, call.own_card)

\* C17: dealt_escoba() is fixed at construction: no play_turn, with its
\* redeal or its termination step, ever changes it, even when the cards on
\* the mesa add up to 15 after a drop or when a capture empties the mesa.
DealtEscobaFixed ==
  /\ [](constructed => (dealt_escoba <=> SumVal(Opening) = EscobaSum))
  /\ [][ dealt_escoba' = dealt_escoba ]_vars

\* C17 witness: a capture has emptied the mesa of a ronda whose opening
\* cards did not add up to 15.
DealtEscobaFixedWitness ==
  /\ constructed /\ ~dealt_escoba /\ raised = "none"
  /\ call.action = "capture" /\ mesa = <<>>

\* C18: right after a successful construction the deck holds the initial
\* cards less 4 + 3*N, every hand holds the 3 cards of its place in the
\* players list (player 0 the first 3 after the mesa's 4, whoever deals),
\* and at most the dealer's pile is non-empty; afterwards the deck never
\* grows, and it shrinks only by 3*N, at a redeal.
ConstructionAndDeck ==
  /\ []((constructed /\ turns = 0) =>
          /\ Len(deck) = Len(deck0) - MinDeck
          /\ \A p \in 0..(players - 1) :
               hand[p] = SubSeq(deck0, MesaDeal + HandSize * p + 1,
                                       MesaDeal + HandSize * (p + 1))
          /\ \A p \in 0..(players - 1) : p # dealer => pila[p] = EmptyPila)
  /\ [][ /\ Len(deck') <= Len(deck)
         /\ deck' # deck => Len(deck') = Len(deck) - HandSize * players ]_vars

\* The cards that are in some pile, and those in some hand.
InPiles == UNION { SetOf(pila[p].cards) : p \in 0..(players - 1) }
InHands == UNION { SetOf(hand[p]) : p \in 0..(players - 1) }

\* C19: in every reachable state the mesa holds no card twice, and a card
\* that has been moved into a pile (by the opening escoba, by a capture or
\* by the termination transfer) is never afterwards on the mesa, in a hand
\* or in the deck; piles only ever grow.
MesaIntegrity ==
  /\ [](constructed =>
          /\ Cardinality(SetOf(mesa)) = Len(mesa)
          /\ InPiles \cap (SetOf(mesa) \cup InHands \cup SetOf(deck)) = {})
  /\ [][ \A p \in 0..(players - 1) :
           /\ Len(pila'[p].cards) >= Len(pila[p].cards)
           /\ SubSeq(pila'[p].cards, 1, Len(pila[p].cards)) = pila[p].cards ]_vars

\* Player p has played in the current lap: it comes after the dealer and
\* before the current player in turn order.
Acted(p) ==
  (p + players - dealer - 1) % players <
    (current_player + players - dealer - 1) % players

\* C20: in every reachable state that is not finished, every hand has
\* between 0 and 3 cards, each player who has played in the current lap
\* holds exactly one card fewer than each player who has not, and the
\* current player's hand is not empty.
HandLockstep ==
  (constructed /\ ~finished) =>
    /\ \A p \in 0..(players - 1) : Len(hand[p]) \in 0..HandSize
    /\ \A p, q \in 0..(players - 1) :
         (Acted(p) /\ ~Acted(q)) => Len(hand[p]) = Len(hand[q]) - 1
    /\ hand[current_player] # <<>>

====
